---- MODULE Spec2Model ----
(***************************************************************************)
(* SQLServerClient (apps/studio/src/store/DataModules.ts): the client's    *)
(* connection lifecycle, its query handles, the change-set transaction and *)
(* the shaping of driver responses into Results.                           *)
(*                                                                         *)
(* Every async method is cut at its await points: the code between two     *)
(* awaits runs in one action, the awaited driver event (pool connected,    *)
(* request answered) is the next action of the same task.                  *)
(***************************************************************************)
EXTENDS Integers, Sequences, FiniteSets, TLC

\* ------------------------------------------------------------------ bounds
NumTasks == 2          \* concurrently running callers of one client
MaxCalls == 3          \* calls the callers make on the client, in total

MaxItems == 1          \* entries in the inserts and in the deletes of a change set
MaxUpdates == 2        \* entries in the updates of a change set
MaxStmts == 3          \* statements in a batch given to executeQuery
MaxRows == 2           \* rows a statement returns or changes
MaxTableRows == 3      \* rows of the table a page is selected from
MaxOffset == 2         \* offset given to selectTop
MaxLimit == 2          \* limit given to selectTop
MaxOrderItems == 1     \* entries in the orderBy given to selectTop
MaxIdLen == 3          \* characters of an identifier given to wrapIdentifier
MaxBody == 2           \* statements in the body given to executeWithTransaction
MaxSets == 2           \* setTableDescription calls made on the client
MaxIndexCols == 2      \* columns of an index

Tasks == 1..NumTasks
\* a call constructs at most one ConnectionPool
PoolIds == 1..MaxCalls

\* --------------------------------------------------------------- constants
Null == "null"
NoPool == 0            \* this.connection while no pool is cached
DefaultReleaseYear == 2017
OffsetFetchYear == 2012
CANCELED == "ECANCEL"

\* what SELECT @@VERSION can answer: 0 stands for a string the year regex
\* does not match
ServerYears == {0, 2008, 2012}

VARIABLES
  connection,   \* this.connection: NoPool or the pool cached by runWithConnection
  dbConfig,     \* this.dbConfig: Null until connect() sets it
  version,      \* this.version: NoVersion until connect() stores the probe
  pools,        \* every ConnectionPool constructed by the client, by state
  tasks,        \* the async calls in flight, one record per caller
  phase,        \* constructed, connected once connect() has returned,
                \* disconnected once disconnect() has been called
  lastReturn,   \* how the last finished call ended
  calls,        \* calls started so far
  db,           \* the table the change sets are applied to: key -> value
  chg,          \* the applyChanges call: its input, position and locals
  exe,          \* the executeQuery call: its batch, the driver's answer, its results
  sel,          \* the selectTop calls on one table: their arguments, the query
                \* text of each strategy and the rows it returned
  wid,          \* the wrapIdentifier call: its argument and what it returned
  txn,          \* the executeWithTransaction call: its body, the table it acts on, what was sent
  dsc,          \* the setTableDescription calls: the tables' descriptions on the server, the call's position, the procedures issued
  ind,          \* the listTableIndexes call: the catalog rows the server returned and the records made of them
  prp           \* the getTableProperties call: its arguments, the sub-queries it issued and what they returned

lifeVars == <<connection, dbConfig, version, pools, tasks, phase, lastReturn,
              calls>>

chgVars == <<db, chg>>
exeVars == <<exe>>
selVars == <<sel>>
widVars == <<wid>>
txnVars == <<txn>>
dscVars == <<dsc>>
indVars == <<ind>>
prpVars == <<prp>>

vars == <<lifeVars, chgVars, exeVars, selVars, widVars, txnVars, dscVars, indVars, prpVars>>

\* what the actions of one part of the client leave alone
nonLifeVars == <<chgVars, exeVars, selVars, widVars, txnVars, dscVars, indVars, prpVars>>
nonChgVars == <<lifeVars, exeVars, selVars, widVars, txnVars, dscVars, indVars, prpVars>>
nonExeVars == <<lifeVars, chgVars, selVars, widVars, txnVars, dscVars, indVars, prpVars>>
nonSelVars == <<lifeVars, chgVars, exeVars, widVars, txnVars, dscVars, indVars, prpVars>>
nonWidVars == <<lifeVars, chgVars, exeVars, selVars, txnVars, dscVars, indVars, prpVars>>
nonTxnVars == <<lifeVars, chgVars, exeVars, selVars, widVars, dscVars, indVars, prpVars>>
nonDscVars == <<lifeVars, chgVars, exeVars, selVars, widVars, txnVars, indVars, prpVars>>
nonIndVars == <<lifeVars, chgVars, exeVars, selVars, widVars, txnVars, dscVars, prpVars>>
nonPrpVars == <<lifeVars, chgVars, exeVars, selVars, widVars, txnVars, dscVars, indVars>>

\* a task: the call it runs, where it waits, the pool it waits for or sent
\* its request on, the SQL of the request and the phase the client was in
\* when the request was sent
IdleTask == [op |-> "none", pc |-> "idle", pool |-> 0, sql |-> "none",
             sentIn |-> "none", canceled |-> FALSE]

\* at: for a cancel(), how far the handle's execute() had come
NoReturn == [op |-> "none", outcome |-> "none", code |-> "none", tag |-> "none",
             at |-> "none"]
NoVersion == [supportOffsetFetch |-> FALSE, releaseYear |-> 0]

\* the table of the change sets and the applyChanges call at rest
Keys == {1, 2}                 \* primary keys of the table
Absent == "absent"             \* no row with that key
Bad == "bad"                   \* a value the table's constraints reject
NewVals == {"x", Bad}          \* values a change entry may write
Kinds == {"inserts", "updates", "deletes"}
NoChanges == [order |-> <<>>, inserts |-> <<>>, updates |-> <<>>, deletes |-> <<>>]
IdleChg == [pc |-> "idle", changes |-> NoChanges, pre |-> [k \in Keys |-> Absent],
            sent |-> <<>>, idx |-> 0, results |-> <<>>, stage |-> "none",
            returned |-> <<>>]

\* selectTop's orderBy: undefined/null, or a list of entries, each a bare
\* field name or an object {field, dir}
NoOrderBy == [defined |-> FALSE, items |-> <<>>]
Strategies == {"PAGE_OLD", "PAGE_NEW"}
NoQuery == [strategy |-> "none"]
NoRows == [outcome |-> "none", rows |-> <<>>]
IdleSel == [n |-> 0, offset |-> 0, limit |-> 0, orderBy |-> NoOrderBy,
            query |-> [s \in Strategies |-> NoQuery],
            result |-> [s \in Strategies |-> NoRows]]

\* no getTableProperties call
IdlePrp == [pc |-> "idle", table |-> "none", schema |-> "none", exists |-> {},
            queries |-> <<>>, triggers |-> <<>>, indexes |-> <<>>,
            description |-> "none", relations |-> <<>>]

\* no listTableIndexes call
IdleInd == [pc |-> "idle", rows |-> <<>>, result |-> <<>>]

\* no setTableDescription call; no table has a description
DescTables == {"t1", "t2"}
NoDesc == ""
IdleDsc == [pc |-> "idle", table |-> "none", desc |-> NoDesc,
            props |-> [t \in DescTables |-> NoDesc], issued |-> <<>>]

\* no executeWithTransaction call
IdleTxn == [pc |-> "idle", op |-> "none", body |-> <<>>,
            table |-> [k \in Keys |-> Absent], pre |-> [k \in Keys |-> Absent],
            sent |-> <<>>, logged |-> FALSE]

\* no wrapIdentifier call
IdleWid == [pc |-> "idle", value |-> <<>>, out |-> <<>>]

\* no executeQuery call
IdleExe == [pc |-> "idle", batch |-> <<>>, parsable |-> TRUE, counted |-> TRUE,
            results |-> <<>>]

\* ----------------------------------------------------------------- helpers

\* getVersion: the release year parsed from the probe, 2017 when the regex
\* does not match, and the pagination capability derived from it
getVersion(year) ==
  LET releaseYear == IF year # 0 THEN year ELSE DefaultReleaseYear
  IN [supportOffsetFetch |-> releaseYear >= OffsetFetchYear,
      releaseYear |-> releaseYear]

\* selectTopSql: genSelectNew when the version supports OFFSET/FETCH
selectTopSql(v) == IF v.supportOffsetFetch THEN "PAGE_NEW" ELSE "PAGE_OLD"

\* the closure variable of query(): declared const and never assigned
queryRequest == Null

\* query().cancel
CancelOutcomeSilent(req) == IF req = Null THEN "noop" ELSE "canceled"
CancelOutcome(req) == IF req = Null THEN "threw" ELSE "canceled"

\* query().execute's catch block: the tag put on the rethrown error
sqlectronErrorUntagged(code) == "none"
sqlectronError(code) == IF code = CANCELED THEN "CANCELED_BY_USER" ELSE "none"

HasFreePool == \E p \in PoolIds : pools[p] = "none"
NewPool == CHOOSE p \in PoolIds :
             pools[p] = "none" /\ \A q \in PoolIds : q < p => pools[q] # "none"

OpenPools == {p \in PoolIds : pools[p] = "open"}

\* runQuery: connection.request() and request.query(sql) on pool conn, whose
\* state is read from pls; a request on a pool that is not open reaches no
\* server and can only be rejected
runQuery(t, op, sql, conn, pls) ==
  IF pls[conn] = "open"
  THEN tasks' = [tasks EXCEPT ![t] = [op |-> op, pc |-> "awaitQuery",
                   pool |-> conn, sql |-> sql, sentIn |-> phase,
                   canceled |-> FALSE]]
  ELSE tasks' = [tasks EXCEPT ![t] = [op |-> op, pc |-> "awaitClosed",
                   pool |-> conn, sql |-> sql, sentIn |-> "none",
                   canceled |-> FALSE]]

\* runWithConnection up to its await: new ConnectionPool(this.dbConfig).connect()
\* with configuration cfg; a pool built from no configuration names no server
\* and its connect() can only reject
runWithConnection(t, op, sql, cfg) ==
  /\ HasFreePool
  /\ pools' = [pools EXCEPT ![NewPool] =
                 IF cfg = Null THEN "badconfig" ELSE "connecting"]
  /\ tasks' = [tasks EXCEPT ![t] = [op |-> op, pc |-> "awaitConnect",
                 pool |-> NewPool, sql |-> sql, sentIn |-> "none",
                 canceled |-> FALSE]]
  /\ UNCHANGED connection

\* driverExecuteQuery up to its first await: reuse the cached connection or
\* establish one
driverExecuteQuery(t, op, sql, cfg) ==
  IF connection # NoPool
  THEN runQuery(t, op, sql, connection, pools) /\ UNCHANGED <<connection, pools>>
  ELSE runWithConnection(t, op, sql, cfg)

\* a caller starts a call; the callers are interchangeable, so the call takes
\* the first slot of tasks that is free
Call == calls < MaxCalls /\ calls' = calls + 1
Free(t) ==
  /\ tasks[t].pc = "idle"
  /\ \A u \in Tasks : u < t => tasks[u].pc # "idle"

Return(t, outcome, code) ==
  /\ lastReturn' = [op |-> tasks[t].op, outcome |-> outcome, code |-> code,
                    tag |-> IF tasks[t].op = "execute" /\ outcome = "error"
                            THEN sqlectronError(code) ELSE "none",
                    at |-> "none"]
  /\ tasks' = [tasks EXCEPT ![t] = IdleTask]

\* ----------------------------------------------------------------- actions

LifeInit ==
  /\ connection = NoPool
  /\ dbConfig = Null
  /\ version = NoVersion
  /\ pools = [p \in PoolIds |-> "none"]
  /\ tasks = [t \in Tasks |-> IdleTask]
  /\ phase = "constructed"
  /\ lastReturn = NoReturn
  /\ calls = 0
  /\ db = [k \in Keys |-> Absent]
  /\ chg = IdleChg
  /\ exe = IdleExe
  /\ sel = IdleSel
  /\ wid = IdleWid
  /\ txn = IdleTxn
  /\ dsc = IdleDsc
  /\ ind = IdleInd
  /\ prp = IdlePrp

\* connect(): sets dbConfig and starts the version probe
Connect(t) ==
  /\ Free(t)
  /\ Call
  /\ dbConfig' = "config"
  /\ driverExecuteQuery(t, "connect", "VERSION", dbConfig')
  /\ UNCHANGED <<version, phase, lastReturn>>
  /\ UNCHANGED nonLifeVars

\* disconnect() up to its await: new ConnectionPool(this.connection) builds a
\* fresh pool object whose configuration is the cached connection
Disconnect(t) ==
  /\ Free(t)
  /\ Call
  /\ HasFreePool
  /\ pools' = [pools EXCEPT ![NewPool] = "unconnected"]
  /\ tasks' = [tasks EXCEPT ![t] = [op |-> "disconnect", pc |-> "awaitTick",
                 pool |-> NewPool, sql |-> "none", sentIn |-> "none",
                 canceled |-> FALSE]]
  /\ phase' = "disconnected"
  /\ UNCHANGED <<connection, dbConfig, version, lastReturn>>
  /\ UNCHANGED nonLifeVars

\* disconnect() after its await: connection.close() on the fresh pool
DisconnectClose(t) ==
  /\ tasks[t].pc = "awaitTick"
  /\ pools' = [pools EXCEPT ![tasks[t].pool] = "closed"]
  /\ Return(t, "ok", "none")
  /\ UNCHANGED <<connection, dbConfig, version, phase, calls>>
  /\ UNCHANGED nonLifeVars

\* any data or introspection method that goes straight to driverExecuteQuery
\* (listTables, listTableColumns, getTableKeys, dropElement, ...)
DataOp(t) ==
  /\ Free(t)
  /\ Call
  /\ driverExecuteQuery(t, "data", "DATA", dbConfig)
  /\ UNCHANGED <<dbConfig, version, phase, lastReturn>>
  /\ UNCHANGED nonLifeVars

\* selectTop -> selectTopSql -> getVersion -> executeQuery(SELECT @@VERSION)
SelectTop(t) ==
  /\ Free(t)
  /\ Call
  /\ driverExecuteQuery(t, "selectTop", "VERSION", dbConfig)
  /\ UNCHANGED <<dbConfig, version, phase, lastReturn>>
  /\ UNCHANGED nonLifeVars

\* query(text).execute(): runWithConnection, whatever this.connection holds
Execute(t) ==
  /\ Free(t)
  /\ Call
  /\ runWithConnection(t, "execute", "USER", dbConfig)
  /\ UNCHANGED <<dbConfig, version, phase, lastReturn>>
  /\ UNCHANGED nonLifeVars

\* query(text).cancel() on the handle of caller t
Cancel(t) ==
  /\ Free(t) \/ tasks[t].op = "execute"
  /\ Call
  /\ LET at == CASE tasks[t].pc = "idle" -> "notStarted"
                 [] tasks[t].pc = "awaitConnect" -> "connecting"
                 [] OTHER -> "running"
         result == CancelOutcome(queryRequest)
     IN /\ lastReturn' = [op |-> "cancel", outcome |-> result, code |-> "none",
                          tag |-> "none", at |-> at]
        /\ tasks' = [tasks EXCEPT ![t].canceled =
                       IF result = "canceled" THEN TRUE ELSE @]
  /\ UNCHANGED <<connection, dbConfig, version, pools, phase>>
  /\ UNCHANGED nonLifeVars

\* the pool's connect() resolves: runWithConnection caches it and runs
PoolConnected(t) ==
  /\ tasks[t].pc = "awaitConnect"
  /\ pools[tasks[t].pool] = "connecting"
  /\ pools' = [pools EXCEPT ![tasks[t].pool] = "open"]
  /\ connection' = tasks[t].pool
  /\ runQuery(t, tasks[t].op, tasks[t].sql, tasks[t].pool, pools')
  /\ UNCHANGED <<dbConfig, version, phase, lastReturn,
                 calls>>
  /\ UNCHANGED nonLifeVars

\* the pool's connect() rejects: nothing is cached, the call rejects
\* (PoolConnectFailedCached: as it would be if the assignment to
\* this.connection preceded the await)
PoolConnectFailedCached(t) ==
  /\ tasks[t].pc = "awaitConnect"
  /\ pools' = [pools EXCEPT ![tasks[t].pool] = "failed"]
  /\ connection' = tasks[t].pool
  /\ Return(t, "error", "ECONN")
  /\ UNCHANGED <<dbConfig, version, phase, calls>>
  /\ UNCHANGED nonLifeVars
PoolConnectFailed(t) ==
  /\ tasks[t].pc = "awaitConnect"
  /\ pools' = [pools EXCEPT ![tasks[t].pool] = "failed"]
  /\ Return(t, "error", "ECONN")
  /\ UNCHANGED <<connection, dbConfig, version, phase, calls>>
  /\ UNCHANGED nonLifeVars

\* request.query resolves; a version probe is answered with the release year
\* the server reports at that moment
QueryResolved(t) ==
  /\ tasks[t].pc = "awaitQuery"
  /\ ~tasks[t].canceled
  /\ CASE tasks[t].op = "connect" ->
            /\ \E year \in ServerYears : version' = getVersion(year)
            /\ phase' = "connected"
            /\ Return(t, "ok", "none")
            /\ UNCHANGED <<connection, pools>>
       [] tasks[t].op = "selectTop" /\ tasks[t].sql = "VERSION" ->
            /\ \E year \in ServerYears :
                 driverExecuteQuery(t, "selectTop",
                                    selectTopSql(getVersion(year)), dbConfig)
            /\ UNCHANGED <<version, phase, lastReturn>>
       [] OTHER ->
            /\ Return(t, "ok", "none")
            /\ UNCHANGED <<connection, pools, version, phase>>
  /\ UNCHANGED <<dbConfig, calls>>
  /\ UNCHANGED nonLifeVars

\* request.query rejects with a driver error code
QueryRejected(t, code) ==
  /\ tasks[t].pc \in {"awaitQuery", "awaitClosed"}
  /\ tasks[t].canceled => code = CANCELED
  /\ tasks[t].pc = "awaitClosed" => code = "ECONNCLOSED"
  /\ Return(t, "error", code)
  /\ UNCHANGED <<connection, dbConfig, version, pools, phase, calls>>
  /\ UNCHANGED nonLifeVars

ErrorCodes == {CANCELED, "EREQUEST", "ECONNCLOSED"}

LifeNext ==
  \E t \in Tasks :
    \/ Connect(t)
    \/ Disconnect(t)
    \/ DisconnectClose(t)
    \/ DataOp(t)
    \/ SelectTop(t)
    \/ Execute(t)
    \/ Cancel(t)
    \/ PoolConnected(t)
    \/ PoolConnectFailed(t)
    \/ QueryResolved(t)
    \/ \E code \in ErrorCodes : QueryRejected(t, code)

\* ------------------------------------------------- applyChanges: the data


Ctl(k) == [kind |-> k, key |-> 0, val |-> ""]

\* buildInsertQueries / buildUpdateQueries / buildDeleteQueries: one statement
\* per entry, in entry order
buildInsertQueries(l) ==
  [i \in 1..Len(l) |-> [kind |-> "INSERT", key |-> l[i].key, val |-> l[i].val]]
buildUpdateQueries(l) ==
  [i \in 1..Len(l) |-> [kind |-> "UPDATE", key |-> l[i].key, val |-> l[i].val]]
buildDeleteQueries(l) ==
  [i \in 1..Len(l) |-> [kind |-> "DELETE", key |-> l[i].key, val |-> ""]]

\* buildSelectQueriesFromUpdates: one SELECT by primary key per update entry
buildSelectQueriesFromUpdates(l) ==
  [i \in 1..Len(l) |-> [kind |-> "SELECT", key |-> l[i].key, val |-> ""]]

\* a change set as the caller built it: order lists the keys the object has,
\* in the order the caller set them; a key that is not in order is undefined
Has(c, k) == \E i \in 1..Len(c.order) : c.order[i] = k
Field(c, k) == CASE k = "inserts" -> c.inserts
                 [] k = "updates" -> c.updates
                 [] OTHER -> c.deletes
build(k, l) == CASE k = "inserts" -> buildInsertQueries(l)
                 [] k = "updates" -> buildUpdateQueries(l)
                 [] OTHER -> buildDeleteQueries(l)

SeqsUpTo(S, n) == UNION {[1..m -> S] : m \in 0..n}
Orders == {o \in SeqsUpTo(Kinds, 3) : \A i, j \in 1..Len(o) : i # j => o[i] # o[j]}
ChangeSets ==
  {c \in [order : Orders,
          inserts : SeqsUpTo([key : Keys, val : {"x"}], MaxItems),
          updates : SeqsUpTo([key : Keys, val : NewVals], MaxUpdates),
          deletes : SeqsUpTo([key : Keys], MaxItems)] :
     \A k \in Kinds : ~Has(c, k) => Field(c, k) = <<>>}

\* applyChanges, lines 570-585: the statements of the transaction, built in
\* the order the object's keys are enumerated (the mutant) or by the three
\* tests in the fixed order inserts, updates, deletes (the code)
TxPrefixNoAbort == <<Ctl("BEGIN TRANSACTION")>>
TxPrefix == <<Ctl("SET XACT_ABORT ON"), Ctl("BEGIN TRANSACTION")>>

RECURSIVE inCallerOrder(_, _)
inCallerOrder(c, i) ==
  IF i > Len(c.order) THEN <<>>
  ELSE build(c.order[i], Field(c, c.order[i])) \o inCallerOrder(c, i + 1)

applyChangesStatementsCallerOrder(c) ==
  TxPrefix \o inCallerOrder(c, 1) \o <<Ctl("COMMIT")>>

applyChangesStatements(c) ==
  LET sql0 == TxPrefix
      sql1 == IF Has(c, "inserts") THEN sql0 \o buildInsertQueries(c.inserts) ELSE sql0
      sql2 == IF Has(c, "updates") THEN sql1 \o buildUpdateQueries(c.updates) ELSE sql1
      sql3 == IF Has(c, "deletes") THEN sql2 \o buildDeleteQueries(c.deletes) ELSE sql2
  IN Append(sql3, Ctl("COMMIT"))

\* ------------------------------------------------ the server's batch run

StmtFails(d, s) ==
  CASE s.kind = "INSERT" -> d[s.key] # Absent \/ s.val = Bad
    [] s.kind = "UPDATE" -> d[s.key] # Absent /\ s.val = Bad
    [] OTHER -> FALSE

StmtApply(d, s) ==
  CASE s.kind = "INSERT" -> [d EXCEPT ![s.key] = s.val]
    [] s.kind = "UPDATE" -> IF d[s.key] # Absent THEN [d EXCEPT ![s.key] = s.val] ELSE d
    [] s.kind = "DELETE" -> [d EXCEPT ![s.key] = Absent]
    [] OTHER -> d

\* one batch on the server: a failing statement under XACT_ABORT ON ends the
\* batch and rolls the open transaction back; without the flag only the
\* failing statement is undone and the batch goes on
RECURSIVE ExecBatch(_, _, _)
ExecBatch(st, batch, i) ==
  IF i > Len(batch) THEN st
  ELSE LET s == batch[i] IN
    CASE s.kind = "SET XACT_ABORT ON" ->
           ExecBatch([st EXCEPT !.abort = TRUE], batch, i + 1)
      [] s.kind = "BEGIN TRANSACTION" ->
           ExecBatch([st EXCEPT !.inTx = TRUE, !.snap = st.db], batch, i + 1)
      [] s.kind = "COMMIT" ->
           ExecBatch([st EXCEPT !.inTx = FALSE], batch, i + 1)
      [] OTHER ->
           IF StmtFails(st.db, s)
           THEN IF st.abort
                THEN [st EXCEPT !.ok = FALSE, !.inTx = FALSE,
                                !.db = IF st.inTx THEN st.snap ELSE st.db]
                ELSE ExecBatch([st EXCEPT !.ok = FALSE], batch, i + 1)
           ELSE ExecBatch([st EXCEPT !.db = StmtApply(st.db, s)], batch, i + 1)

RunBatch(d, batch) ==
  ExecBatch([db |-> d, snap |-> d, inTx |-> FALSE, abort |-> FALSE, ok |-> TRUE],
            batch, 1)

\* the driver's answer to a SELECT by key: an object with recordsets,
\* recordset and rowsAffected
SelectResult(d, k) ==
  LET rows == IF d[k] = Absent THEN <<>> ELSE <<[key |-> k, val |-> d[k]]>>
  IN [recordsets |-> <<rows>>, recordset |-> rows, rowsAffected |-> <<Len(rows)>>]

\* ---------------------------------------------- applyChanges: the actions


\* a client on which connect() has completed: the pool is cached
ConnectedClient ==
  /\ connection = 1
  /\ dbConfig = "config"
  /\ version = getVersion(OffsetFetchYear)
  /\ pools = [p \in PoolIds |-> IF p = 1 THEN "open" ELSE "none"]
  /\ tasks = [t \in Tasks |-> IdleTask]
  /\ phase = "connected"
  /\ lastReturn = [op |-> "connect", outcome |-> "ok", code |-> "none",
                   tag |-> "none", at |-> "none"]
  /\ calls = 1

ChgInit ==
  /\ ConnectedClient
  /\ db \in [Keys -> {Absent, "a"}]
  /\ chg = IdleChg
  /\ exe = IdleExe
  /\ sel = IdleSel
  /\ wid = IdleWid
  /\ txn = IdleTxn
  /\ dsc = IdleDsc
  /\ ind = IdleInd
  /\ prp = IdlePrp

\* results.push(r.data[0]) when r.data[0] is truthy: r.data is the driver's
\* answer object, "0" one of its property names or not
pushFirst(results, data) ==
  IF "0" \in DOMAIN data THEN Append(results, data["0"]) ELSE results

\* the loop over selectQueries: send query idx, or return results after the
\* last (returned: the rows handed to the caller)
nextSelect(c, idx, results) ==
  IF Has(c.changes, "updates") /\ idx <= Len(c.changes.updates)
  THEN [c EXCEPT !.pc = "awaitSelect", !.idx = idx, !.results = results,
                 !.sent = Append(@, <<buildSelectQueriesFromUpdates(c.changes.updates)[idx]>>)]
  ELSE [c EXCEPT !.pc = "done", !.idx = idx, !.results = results,
                 !.returned = results]

\* applyChanges(changes) up to its first await: the statements are joined and
\* handed to driverExecuteQuery, which runs them on the cached connection
ApplyChanges ==
  /\ chg.pc = "idle"
  /\ connection # NoPool /\ pools[connection] = "open"
  /\ \E changes \in ChangeSets :
       chg' = [pc |-> "awaitTx", changes |-> changes, pre |-> db,
               sent |-> <<applyChangesStatements(changes)>>, idx |-> 0,
               results |-> <<>>, stage |-> "tx", returned |-> <<>>]
  /\ UNCHANGED db
  /\ UNCHANGED nonChgVars

\* the server runs the batch and the request resolves or rejects
TxAnswered ==
  /\ chg.pc = "awaitTx"
  /\ LET r == RunBatch(db, chg.sent[1]) IN
       /\ db' = r.db
       /\ chg' = IF r.ok THEN nextSelect([chg EXCEPT !.stage = "select"], 1, <<>>)
                 ELSE [chg EXCEPT !.pc = "threw"]
  /\ UNCHANGED nonChgVars

\* the request is rejected before the server ran any of it
TxLost ==
  /\ chg.pc = "awaitTx"
  /\ chg' = [chg EXCEPT !.pc = "threw"]
  /\ UNCHANGED db
  /\ UNCHANGED nonChgVars

\* a re-select resolves
SelectAnswered ==
  /\ chg.pc = "awaitSelect"
  /\ LET q == chg.sent[Len(chg.sent)][1]
         data == SelectResult(db, q.key)
     IN chg' = nextSelect(chg, chg.idx + 1, pushFirst(chg.results, data))
  /\ UNCHANGED db
  /\ UNCHANGED nonChgVars

\* a re-select rejects: the catch block logs and rethrows
SelectRejected ==
  /\ chg.pc = "awaitSelect"
  /\ chg' = [chg EXCEPT !.pc = "threw"]
  /\ UNCHANGED db
  /\ UNCHANGED nonChgVars

\* the caller has received the rows or the exception
Finish ==
  /\ chg.pc \in {"done", "threw"}
  /\ chg' = IdleChg
  /\ UNCHANGED db
  /\ UNCHANGED nonChgVars

ChgNext ==
  \/ ApplyChanges
  \/ TxAnswered
  \/ TxLost
  \/ SelectAnswered
  \/ SelectRejected
  \/ Finish

SpecChanges == ChgInit /\ [][ChgNext]_vars


\* ------------------------------------------------------------ executeQuery

Undefined == "undefined"
StmtTypes == {"SELECT", "UPDATE"}

\* the batches: each statement with the number of rows it returns (SELECT)
\* or changes (UPDATE)
Batches == UNION {[1..m -> [type : StmtTypes, n : 0..MaxRows]] : m \in 1..MaxStmts}

Rows(n) == [i \in 1..n |-> [id |-> i]]

RECURSIVE recordsetsOf(_, _)
recordsetsOf(batch, i) ==
  IF i > Len(batch) THEN <<>>
  ELSE (IF batch[i].type = "SELECT" THEN <<Rows(batch[i].n)>> ELSE <<>>)
       \o recordsetsOf(batch, i + 1)

\* the driver's answer in multiple-result-set mode: a recordset for each
\* statement that returns rows and none for the others; a count for each
\* statement, which for a SELECT is its number of rows when the server counts
\* them (counted) and 0 otherwise
DriverAnswer(batch, counted) ==
  [recordsets |-> recordsetsOf(batch, 1),
   rowsAffected |-> [i \in 1..Len(batch) |->
                       IF batch[i].type = "UPDATE" \/ counted THEN batch[i].n ELSE 0]]

RECURSIVE sum(_, _)
sum(a, i) == IF i > Len(a) THEN 0 ELSE a[i] + sum(a, i + 1)

\* identifyCommands(queryText).map(item => item.type): the classifier's
\* types in statement order, or nothing when it throws
identifyCommands(batch, parsable) ==
  IF parsable THEN [i \in 1..Len(batch) |-> batch[i].type] ELSE <<>>

\* commands[idx]
At(a, i) == IF i \in DOMAIN a THEN a[i] ELSE Undefined

\* parseRowQueryResult: command || (isSelect && 'SELECT')
\* (parseRowQueryResultSelectFirst: as it would be if isSelect were tested
\* before the classifier's command)
parseRowQueryResultSelectFirst(data, rowsAffected, command) ==
  LET isSelect == Len(data) # 0 \/ rowsAffected = 0
  IN [command |-> IF isSelect THEN "SELECT" ELSE command,
      rows |-> data,
      rowCount |-> Len(data),
      affectedRows |-> rowsAffected]
parseRowQueryResult(data, rowsAffected, command) ==
  LET isSelect == Len(data) # 0 \/ rowsAffected = 0
  IN [command |-> IF command # Undefined THEN command
                  ELSE IF isSelect THEN "SELECT" ELSE "false",
      rows |-> data,
      rowCount |-> Len(data),
      affectedRows |-> rowsAffected]

\* executeQuery (executeQueryNoPlaceholder: as it would be without the
\* placeholder of line 211)
executeQueryNoPlaceholder(batch, parsable, counted) ==
  LET data == DriverAnswer(batch, counted)
      rowsAffected == sum(data.rowsAffected, 1)
      commands == identifyCommands(batch, parsable)
      results == data.recordsets
  IN [idx \in 1..Len(results) |->
        parseRowQueryResult(results[idx], rowsAffected, At(commands, idx))]
executeQuery(batch, parsable, counted) ==
  LET data == DriverAnswer(batch, counted)
      rowsAffected == sum(data.rowsAffected, 1)
      commands == identifyCommands(batch, parsable)
      results == IF Len(data.recordsets) = 0 /\ rowsAffected > 0
                 THEN <<<<>>>> ELSE data.recordsets
  IN [idx \in 1..Len(results) |->
        parseRowQueryResult(results[idx], rowsAffected, At(commands, idx))]

ExeInit ==
  /\ ConnectedClient
  /\ db = [k \in Keys |-> Absent]
  /\ chg = IdleChg
  /\ exe \in [pc : {"called"}, batch : Batches, parsable : BOOLEAN,
              counted : BOOLEAN, results : {<<>>}]
  /\ sel = IdleSel
  /\ wid = IdleWid
  /\ txn = IdleTxn
  /\ dsc = IdleDsc
  /\ ind = IdleInd
  /\ prp = IdlePrp

\* executeQuery(queryText) returns
ExecuteQuery ==
  /\ exe.pc = "called"
  /\ connection # NoPool
  /\ exe' = [exe EXCEPT !.pc = "done",
               !.results = executeQuery(exe.batch, exe.parsable, exe.counted)]
  /\ UNCHANGED nonExeVars

ExeNext == ExecuteQuery

SpecExec == ExeInit /\ [][ExeNext]_vars

\* --------------------------------------------------- executeWithTransaction

\* the bodies: the statements alterTableSql, alterIndexSql, alterRelationSql
\* build, and the insertSQL given to importData
BodyStatements ==
  [kind : {"INSERT"}, key : Keys, val : NewVals]
    \cup [kind : {"UPDATE"}, key : Keys, val : NewVals]
    \cup [kind : {"DELETE"}, key : Keys, val : {""}]
Bodies == SeqsUpTo(BodyStatements, MaxBody)

\* joinQueries: the pieces, each a run of statements, joined into one batch
RECURSIVE joinQueries(_)
joinQueries(queries) ==
  IF queries = <<>> THEN <<>> ELSE Head(queries) \o joinQueries(Tail(queries))

\* executeWithTransaction, line 926: the batch handed to driverExecuteQuery
\* (executeWithTransactionQueryNoAbort: as it would be without the flag)
executeWithTransactionQueryNoAbort(query) ==
  joinQueries(<< <<Ctl("BEGIN TRANSACTION")>>, query, <<Ctl("COMMIT")>> >>)
executeWithTransactionQuery(query) ==
  joinQueries(<< <<Ctl("SET XACT_ABORT ON")>>, <<Ctl("BEGIN TRANSACTION")>>,
                 query, <<Ctl("COMMIT")>> >>)

TxnInit ==
  /\ ConnectedClient
  /\ db = [k \in Keys |-> Absent]
  /\ chg = IdleChg
  /\ exe = IdleExe
  /\ sel = IdleSel
  /\ wid = IdleWid
  /\ txn \in [pc : {"idle"}, op : {"none"}, body : {<<>>},
              table : [Keys -> {Absent, "a"}], pre : {[k \in Keys |-> Absent]},
              sent : {<<>>}, logged : {FALSE}]
  /\ dsc = IdleDsc
  /\ ind = IdleInd
  /\ prp = IdlePrp

\* executeWithTransaction({query}) up to its await, called by op
executeWithTransaction(op, query) ==
  txn' = [txn EXCEPT !.pc = "awaitTx", !.op = op, !.body = query,
                     !.pre = txn.table,
                     !.sent = Append(@, executeWithTransactionQuery(query))]

\* a call can start: none is running and the client holds its connection
CanStart ==
  /\ txn.pc = "idle"
  /\ connection # NoPool /\ pools[connection] = "open"

\* alterTable(changes): the body is what alterTableSql built
AlterTable ==
  /\ CanStart
  /\ \E query \in Bodies : executeWithTransaction("alterTable", query)
  /\ UNCHANGED nonTxnVars

\* alterIndex(payload): the body is what alterIndexSql built
AlterIndex ==
  /\ CanStart
  /\ \E sql \in Bodies : executeWithTransaction("alterIndex", sql)
  /\ UNCHANGED nonTxnVars

\* alterRelation(payload): the body is what alterRelationSql built
AlterRelation ==
  /\ CanStart
  /\ \E query \in Bodies : executeWithTransaction("alterRelation", query)
  /\ UNCHANGED nonTxnVars

\* importData(insertSQL)
ImportData ==
  /\ CanStart
  /\ \E insertSQL \in Bodies : executeWithTransaction("importData", insertSQL)
  /\ UNCHANGED nonTxnVars

\* the server runs the batch; the request resolves, or rejects and the catch
\* block logs the error and rethrows it
EnvelopeAnswered ==
  /\ txn.pc = "awaitTx"
  /\ LET r == RunBatch(txn.table, txn.sent[Len(txn.sent)]) IN
       txn' = IF r.ok THEN [txn EXCEPT !.pc = "done", !.table = r.db]
              ELSE [txn EXCEPT !.pc = "threw", !.table = r.db, !.logged = TRUE]
  /\ UNCHANGED nonTxnVars

\* the request is rejected before the server ran any of it
EnvelopeLost ==
  /\ txn.pc = "awaitTx"
  /\ txn' = [txn EXCEPT !.pc = "threw", !.logged = TRUE]
  /\ UNCHANGED nonTxnVars

TxnNext ==
  \/ AlterTable
  \/ AlterIndex
  \/ AlterRelation
  \/ ImportData
  \/ EnvelopeAnswered
  \/ EnvelopeLost

SpecTransaction == TxnInit /\ [][TxnNext]_vars

\* ----------------------------------------------------- setTableDescription

\* the rows fn_listextendedproperty returns for MS_Description of a table:
\* one row objtype, objname, name, value when the property exists
ListExtendedProperty(props, table) ==
  IF props[table] = NoDesc THEN <<>>
  ELSE <<[objtype |-> "TABLE", objname |-> table, name |-> "MS_Description",
          value |-> props[table]]>>

\* what driverExecuteQuery resolves with: { request, data, rowsAffected }
QueryAnswer(rows) ==
  [request |-> "request",
   data |-> [recordsets |-> <<rows>>, recordset |-> rows,
             rowsAffected |-> <<Len(rows)>>],
   rowsAffected |-> Len(rows)]

\* getTableDescription after its await: data is what driverExecuteQuery
\* resolved with
getTableDescription(data) ==
  IF "recordset" \notin DOMAIN data THEN Null
  ELSE IF Len(data.recordset) = 0 THEN Null
  ELSE IF "MS_Description" \in DOMAIN data.recordset[1]
       THEN data.recordset[1].MS_Description
       ELSE Undefined

\* existingDescription ? 'sp_updateextendedproperty' : 'sp_addextendedproperty'
chooseProcedure(existingDescription) ==
  IF existingDescription \notin {Null, Undefined, ""}
  THEN "sp_updateextendedproperty" ELSE "sp_addextendedproperty"

DscInit ==
  /\ ConnectedClient
  /\ db = [k \in Keys |-> Absent]
  /\ chg = IdleChg
  /\ exe = IdleExe
  /\ sel = IdleSel
  /\ wid = IdleWid
  /\ txn = IdleTxn
  /\ dsc \in [pc : {"idle"}, table : {"none"}, desc : {NoDesc},
              props : [DescTables -> {NoDesc, "old"}], issued : {<<>>}]
  /\ ind = IdleInd
  /\ prp = IdlePrp

\* setTableDescription(table, desc) up to the await in getTableDescription
SetTableDescription ==
  /\ dsc.pc = "idle"
  /\ Len(dsc.issued) < MaxSets
  /\ connection # NoPool /\ pools[connection] = "open"
  /\ \E table \in DescTables, desc \in {"d1", "d2"} :
       dsc' = [dsc EXCEPT !.pc = "awaitRead", !.table = table, !.desc = desc]
  /\ UNCHANGED nonDscVars

\* the read is answered: getTableDescription returns, the procedure is
\* chosen and the EXEC is handed to executeQuery
DescriptionRead ==
  /\ dsc.pc = "awaitRead"
  /\ LET data == QueryAnswer(ListExtendedProperty(dsc.props, dsc.table))
         existingDescription == getTableDescription(data)
         f == chooseProcedure(existingDescription)
     IN dsc' = [dsc EXCEPT !.pc = "awaitExec",
                  !.issued = Append(@, [table |-> dsc.table, f |-> f,
                                        had |-> dsc.props[dsc.table] # NoDesc,
                                        outcome |-> "pending"])]
  /\ UNCHANGED nonDscVars

\* the server runs the EXEC: sp_addextendedproperty fails when the property
\* exists, sp_updateextendedproperty when it does not; the call returns or
\* throws
ProcedureAnswered ==
  /\ dsc.pc = "awaitExec"
  /\ LET n == Len(dsc.issued)
         has == dsc.props[dsc.table] # NoDesc
         ok == IF dsc.issued[n].f = "sp_addextendedproperty" THEN ~has ELSE has
     IN dsc' = [dsc EXCEPT !.pc = "idle",
                  !.props[dsc.table] = IF ok THEN dsc.desc ELSE @,
                  !.issued[n].outcome = IF ok THEN "ok" ELSE "failed"]
  /\ UNCHANGED nonDscVars

DscNext ==
  \/ SetTableDescription
  \/ DescriptionRead
  \/ ProcedureAnswered

SpecDescription == DscInit /\ [][DscNext]_vars

\* --------------------------------------------------------- listTableIndexes

\* the indexes a table can have and what the catalog says of each: whether it
\* is there, its flags, and its columns in the order the query returns them,
\* each with its index_column_id and its direction
IndexNames == {"ia", "ib"}
IndexFlags == {[is_unique |-> FALSE, is_primary |-> FALSE],
               [is_unique |-> TRUE, is_primary |-> FALSE],
               [is_unique |-> TRUE, is_primary |-> TRUE]}
IndexColumns ==
  {c \in SeqsUpTo([column_id : 1..MaxIndexCols, is_descending : BOOLEAN],
                  MaxIndexCols) :
     /\ Len(c) > 0
     /\ \A i, j \in 1..Len(c) : i # j => c[i].column_id # c[j].column_id}
ColumnName(column_id) == <<"c", column_id>>

\* the rows of one index
IndexRows(name, id, flags, cols) ==
  [i \in 1..Len(cols) |->
     [index_name |-> name, index_id |-> id,
      column_id |-> cols[i].column_id,
      column_name |-> ColumnName(cols[i].column_id),
      is_descending |-> cols[i].is_descending,
      is_unique |-> flags.is_unique, is_primary |-> flags.is_primary]]

\* data.recordset: the rows of the indexes that are there, which the query
\* orders by index name
CatalogRows ==
  {(IF a.there THEN IndexRows("ia", ids[1], a.flags, a.cols) ELSE <<>>)
     \o (IF b.there THEN IndexRows("ib", ids[2], b.flags, b.cols) ELSE <<>>) :
   a \in [there : BOOLEAN, flags : IndexFlags, cols : IndexColumns],
   b \in [there : BOOLEAN, flags : IndexFlags, cols : IndexColumns],
   ids \in {<<1, 2>>, <<2, 1>>}}

\* Object.keys(_.groupBy(rows, 'index_name')): the distinct names in the
\* order of their first row
RECURSIVE groupKeys(_)
groupKeys(rows) ==
  IF rows = <<>> THEN <<>>
  ELSE LET init == SubSeq(rows, 1, Len(rows) - 1)
           last == rows[Len(rows)].index_name
       IN IF \E i \in 1..Len(init) : init[i].index_name = last
          THEN groupKeys(init) ELSE Append(groupKeys(init), last)

\* grouped[indexName]
InGroup(rows, indexName) ==
  LET at == {i \in 1..Len(rows) : rows[i].index_name = indexName}
      RECURSIVE pick(_)
      pick(i) == IF i > Len(rows) THEN <<>>
                 ELSE (IF i \in at THEN <<rows[i]>> ELSE <<>>) \o pick(i + 1)
  IN pick(1)

\* _.sortBy(list, field): a stable sort, ascending
RECURSIVE sortBy(_, _)
sortBy(list, field) ==
  IF list = <<>> THEN <<>>
  ELSE LET rest == sortBy(SubSeq(list, 1, Len(list) - 1), field)
           x == list[Len(list)]
           k == Cardinality({i \in 1..Len(rest) : rest[i][field] <= x[field]})
       IN SubSeq(rest, 1, k) \o <<x>> \o SubSeq(rest, k + 1, Len(rest))

\* the records before the final sort, in the order of the keys
indexRecords(rows) ==
  LET keys == groupKeys(rows)
  IN [n \in 1..Len(keys) |->
        LET blob == InGroup(rows, keys[n])
            sorted == sortBy(blob, "column_id")
        IN [id |-> blob[1].index_id, name |-> keys[n],
            unique |-> blob[1].is_unique, primary |-> blob[1].is_primary,
            columns |-> [c \in 1..Len(sorted) |->
                           [name |-> sorted[c].column_name,
                            order |-> IF sorted[c].is_descending THEN "DESC"
                                                                 ELSE "ASC"]]]]

\* listTableIndexes after its await (listTableIndexesUnsorted: as it would be
\* without the final sort)
listTableIndexesUnsorted(rows) == indexRecords(rows)
listTableIndexes(rows) == sortBy(indexRecords(rows), "id")

IndInit ==
  /\ ConnectedClient
  /\ db = [k \in Keys |-> Absent]
  /\ chg = IdleChg
  /\ exe = IdleExe
  /\ sel = IdleSel
  /\ wid = IdleWid
  /\ txn = IdleTxn
  /\ dsc = IdleDsc
  /\ ind \in [pc : {"awaitRows"}, rows : CatalogRows, result : {<<>>}]
  /\ prp = IdlePrp

\* the catalog query is answered and listTableIndexes returns
ListTableIndexes ==
  /\ ind.pc = "awaitRows"
  /\ connection # NoPool
  /\ ind' = [ind EXCEPT !.pc = "done", !.result = listTableIndexes(ind.rows)]
  /\ UNCHANGED nonIndVars

IndNext == ListTableIndexes

SpecIndexes == IndInit /\ [][IndNext]_vars

\* ------------------------------------------------------ getTableProperties

\* the names tables and schemas have; a schema may be called as a table is
Names == {"dbo", "sales", "orders"}
defaultSchema == "dbo"

\* the query a lister issues, by the table and the schema it names
\* listTableTriggers(table, schema)
listTableTriggersQuery(table, schema) ==
  [kind |-> "triggers", table |-> table, schema |-> schema]
\* listTableIndexes(_db, table, schema = this.defaultSchema())
listTableIndexesQuery(_db, table, schema) ==
  [kind |-> "indexes", table |-> table,
   schema |-> IF schema = Undefined THEN defaultSchema ELSE schema]
\* getTableDescription(table, schema = this.defaultSchema())
getTableDescriptionQuery(table, schema) ==
  [kind |-> "description", table |-> table,
   schema |-> IF schema = Undefined THEN defaultSchema ELSE schema]
\* EXEC sp_spaceused N'schema.table'
sizeQuery(table, schema) == [kind |-> "size", table |-> table, schema |-> schema]
\* getTableKeys(_, table, schema)
getTableKeysQuery(_db, table, schema) ==
  [kind |-> "relations", table |-> table, schema |-> schema]

\* what the server holds for a query: the triggers, indexes or relations of
\* the table it names, when that table is in that schema
Listed(exists, q) ==
  IF <<q.table, q.schema>> \in exists
  THEN <<[of |-> q.kind, table |-> q.table, schema |-> q.schema]>>
  ELSE <<>>

PrpInit ==
  /\ ConnectedClient
  /\ db = [k \in Keys |-> Absent]
  /\ chg = IdleChg
  /\ exe = IdleExe
  /\ sel = IdleSel
  /\ wid = IdleWid
  /\ txn = IdleTxn
  /\ dsc = IdleDsc
  /\ ind = IdleInd
  /\ prp \in [pc : {"called"}, table : Names, schema : Names \cup {Undefined},
              exists : SUBSET (Names \X Names),
              queries : {<<>>}, triggers : {<<>>}, indexes : {<<>>},
              description : {"none"}, relations : {<<>>}]

\* the schema parameter of getTableProperties after its default
SchemaOf(p) == IF p.schema = Undefined THEN defaultSchema ELSE p.schema

\* getTableProperties(table, schema) up to its first await
GetTableProperties ==
  /\ prp.pc = "called"
  /\ connection # NoPool
  /\ prp' = [prp EXCEPT !.pc = "awaitTriggers",
                !.queries = Append(@, listTableTriggersQuery(prp.table,
                                                             SchemaOf(prp)))]
  /\ UNCHANGED nonPrpVars

\* the triggers are answered; listTableIndexes(table, schema) is called
TriggersAnswered ==
  /\ prp.pc = "awaitTriggers"
  /\ prp' = [prp EXCEPT !.pc = "awaitIndexes",
                !.triggers = Listed(prp.exists, prp.queries[Len(prp.queries)]),
                !.queries = Append(@, listTableIndexesQuery(prp.table,
                                        SchemaOf(prp), Undefined))]
  /\ UNCHANGED nonPrpVars

\* the indexes are answered; getTableDescription(table, schema) is called
IndexesAnswered ==
  /\ prp.pc = "awaitIndexes"
  /\ prp' = [prp EXCEPT !.pc = "awaitDescription",
                !.indexes = Listed(prp.exists, prp.queries[Len(prp.queries)]),
                !.queries = Append(@, getTableDescriptionQuery(prp.table,
                                                               SchemaOf(prp)))]
  /\ UNCHANGED nonPrpVars

\* the description is answered; the size query is sent
DescriptionAnswered ==
  /\ prp.pc = "awaitDescription"
  /\ LET q == prp.queries[Len(prp.queries)]
         rows == IF <<q.table, q.schema>> \in prp.exists
                 THEN <<[objtype |-> "TABLE", objname |-> q.table,
                         name |-> "MS_Description", value |-> "d"]>>
                 ELSE <<>>
     IN prp' = [prp EXCEPT !.pc = "awaitSize",
                  !.description = getTableDescription(QueryAnswer(rows)),
                  !.queries = Append(@, sizeQuery(prp.table, SchemaOf(prp)))]
  /\ UNCHANGED nonPrpVars

\* the size is answered; getTableKeys(null, table, schema) is called
SizeAnswered ==
  /\ prp.pc = "awaitSize"
  /\ prp' = [prp EXCEPT !.pc = "awaitRelations",
                !.queries = Append(@, getTableKeysQuery(Null, prp.table,
                                                        SchemaOf(prp)))]
  /\ UNCHANGED nonPrpVars

\* the relations are answered and getTableProperties returns
RelationsAnswered ==
  /\ prp.pc = "awaitRelations"
  /\ prp' = [prp EXCEPT !.pc = "done",
                !.relations = Listed(prp.exists, prp.queries[Len(prp.queries)])]
  /\ UNCHANGED nonPrpVars

PrpNext ==
  \/ GetTableProperties
  \/ TriggersAnswered
  \/ IndexesAnswered
  \/ DescriptionAnswered
  \/ SizeAnswered
  \/ RelationsAnswered

SpecProperties == PrpInit /\ [][PrpNext]_vars

\* ---------------------------------------------------------- wrapIdentifier

\* a string is the sequence of its characters
RECURSIVE replace(_, _, _)
\* value.replace(/c/g, by)
replace(value, c, by) ==
  IF value = <<>> THEN <<>>
  ELSE (IF Head(value) = c THEN by ELSE <<Head(value)>>)
       \o replace(Tail(value), c, by)

wrapIdentifier(value) ==
  IF value # <<"*">> THEN <<"[">> \o replace(value, "[", <<"[">>) \o <<"]">>
  ELSE <<"*">>

\* the characters identifiers are made of: a letter, the two brackets and
\* the wildcard
Chars == {"a", "[", "]", "*"}
Identifiers == SeqsUpTo(Chars, MaxIdLen)

WidInit ==
  /\ ConnectedClient
  /\ db = [k \in Keys |-> Absent]
  /\ chg = IdleChg
  /\ exe = IdleExe
  /\ sel = IdleSel
  /\ wid \in [pc : {"called"}, value : Identifiers, out : {<<>>}]
  /\ txn = IdleTxn
  /\ dsc = IdleDsc
  /\ ind = IdleInd
  /\ prp = IdlePrp

\* wrapIdentifier(value) returns
WrapIdentifier ==
  /\ wid.pc = "called"
  /\ wid' = [wid EXCEPT !.pc = "done", !.out = wrapIdentifier(wid.value)]
  /\ UNCHANGED nonWidVars

WidNext == WrapIdentifier

SpecWrap == WidInit /\ [][WidNext]_vars

\* --------------------------------------------------- selectTop: the pages

\* the entries an orderBy is made of, on the column f
OrderItems == [isObject : {FALSE}, field : {<<"f">>}, dir : {""}]
                \cup [isObject : {TRUE}, field : {<<"f">>}, dir : {"asc", "desc"}]
OrderBys == {NoOrderBy}
              \cup [defined : {TRUE}, items : SeqsUpTo(OrderItems, MaxOrderItems)]

toUpperCase(dir) == CASE dir = "asc" -> "ASC" [] dir = "desc" -> "DESC"
                      [] OTHER -> dir

\* genOrderByString: the clause as its leading text and the rendered entries
\* joined after it
genOrderByString(orderBy) ==
  IF ~orderBy.defined THEN [text |-> "", items |-> <<>>]
  ELSE IF Len(orderBy.items) > 0
       THEN [text |-> "ORDER BY",
             items |-> [i \in 1..Len(orderBy.items) |->
                          LET item == orderBy.items[i]
                          IN IF item.isObject
                             THEN [id |-> wrapIdentifier(item.field),
                                   dir |-> toUpperCase(item.dir)]
                             ELSE [id |-> wrapIdentifier(item.field), dir |-> ""]]]
       ELSE [text |-> "ORDER BY (SELECT NULL)", items |-> <<>>]

\* genSelectOld: ROW_NUMBER() OVER (orderByString) as RowNumber ...
\* WHERE RowNumber BETWEEN offset AND lastRow ORDER BY RowNumber ASC
genSelectOld(offset, limit, orderBy) ==
  LET orderByString == genOrderByString(orderBy)
      lastRow == offset + limit
  IN [strategy |-> "PAGE_OLD", over |-> orderByString,
      between |-> <<offset, lastRow>>]

\* genSelectNew: SELECT ... FROM ... orderByString
\* OFFSET offset ROWS FETCH NEXT limit ROWS ONLY
genSelectNew(offset, limit, orderBy) ==
  LET orderByString == genOrderByString(orderBy)
  IN [strategy |-> "PAGE_NEW", orderByString |-> orderByString,
      offsetString |-> <<offset, limit>>]

\* the table's rows are named by their rank in ascending order of f
Reverse(rows) == [i \in 1..Len(rows) |-> rows[Len(rows) + 1 - i]]
Max(a, b) == IF a > b THEN a ELSE b
Min(a, b) == IF a < b THEN a ELSE b

\* the rows in the order an ORDER BY clause puts them: by its first entry,
\* and in the order the server happens to pick for ORDER BY (SELECT NULL)
Ordered(clause, n, arbitrary) ==
  LET ascending == [i \in 1..n |-> i]
  IN IF clause.items = <<>>
     THEN (IF arbitrary = "desc" THEN Reverse(ascending) ELSE ascending)
     ELSE (IF clause.items[1].dir = "DESC" THEN Reverse(ascending)
           ELSE ascending)

\* the server's answer to a page query on a table of n rows. ROW_NUMBER()
\* needs an ORDER BY in its OVER clause and numbers the rows from 1; OFFSET
\* needs an ORDER BY before it and FETCH NEXT a count above 0
ServerSelect(q, n, arbitrary) ==
  IF q.strategy = "PAGE_OLD"
  THEN IF q.over.text = "" THEN [outcome |-> "error", rows |-> <<>>]
       ELSE [outcome |-> "ok",
             rows |-> SubSeq(Ordered(q.over, n, arbitrary),
                             Max(q.between[1], 1), Min(q.between[2], n))]
  ELSE IF q.orderByString.text = "" \/ q.offsetString[2] = 0
       THEN [outcome |-> "error", rows |-> <<>>]
       ELSE [outcome |-> "ok",
             rows |-> SubSeq(Ordered(q.orderByString, n, arbitrary),
                             q.offsetString[1] + 1,
                             Min(q.offsetString[1] + q.offsetString[2], n))]

SelInit ==
  /\ ConnectedClient
  /\ db = [k \in Keys |-> Absent]
  /\ chg = IdleChg
  /\ exe = IdleExe
  /\ sel \in [n : 0..MaxTableRows, offset : 0..MaxOffset, limit : 0..MaxLimit,
              orderBy : OrderBys,
              query : {[s \in Strategies |-> NoQuery]},
              result : {[s \in Strategies |-> NoRows]}]
  /\ wid = IdleWid
  /\ txn = IdleTxn
  /\ dsc = IdleDsc
  /\ ind = IdleInd
  /\ prp = IdlePrp

\* selectTopSql on a server that reports release year: probes the version and
\* generates the query of the strategy the version allows
SelectTopSql(year) ==
  LET v == getVersion(year)
      s == selectTopSql(v)
  IN /\ connection # NoPool
     /\ sel.query[s].strategy = "none"
     /\ sel' = [sel EXCEPT !.query[s] =
                  IF v.supportOffsetFetch
                  THEN genSelectNew(sel.offset, sel.limit, sel.orderBy)
                  ELSE genSelectOld(sel.offset, sel.limit, sel.orderBy)]
     /\ UNCHANGED nonSelVars

\* selectTop after selectTopSql: the server answers the query
SelectTopRows(s) ==
  /\ sel.query[s].strategy # "none"
  /\ sel.result[s].outcome = "none"
  /\ \E arbitrary \in {"asc", "desc"} :
       sel' = [sel EXCEPT !.result[s] =
                 ServerSelect(sel.query[s], sel.n, arbitrary)]
  /\ UNCHANGED nonSelVars

SelNext ==
  \/ \E year \in ServerYears : SelectTopSql(year)
  \/ \E s \in Strategies : SelectTopRows(s)

SpecSelect == SelInit /\ [][SelNext]_vars

Init == LifeInit
Next == LifeNext
Spec == Init /\ [][Next]_vars

\* ------------------------------------------------------------------ claims

\* C1: in every reachable state the client has established at most one
\* connection pool that has not been closed.
C1_AtMostOneLivePool == Cardinality(OpenPools) <= 1

\* C2: SQL of a data, DDL or introspection operation reaches the driver only
\* while the client is connected, that is after connect() has completed and
\* before disconnect() is called.
C2_OperationsRequireConnected ==
  \A t \in Tasks :
    (tasks[t].pc = "awaitQuery" /\ tasks[t].op \in {"data", "selectTop", "execute"})
      => tasks[t].sentIn = "connected"

\* C3: the version probe SELECT @@VERSION is issued by connect() only; no
\* selectTop / selectTopSql call issues another one.
C3_VersionProbedOnlyByConnect ==
  \A t \in Tasks :
    (tasks[t].pc = "awaitQuery" /\ tasks[t].sql = "VERSION") => tasks[t].op = "connect"

\* C4: when disconnect() returns, no pool established by the client is open.
C4_DisconnectClosesPool ==
  [][(\E t \in Tasks : DisconnectClose(t)) => \A p \in PoolIds : pools'[p] # "open"]_vars

\* C9: cancel() on a query handle whose driver request does not exist yet
\* (execute() not called, or still establishing the connection) throws and
\* cancels nothing.
C9_CancelBeforeRequestThrows ==
  (lastReturn.op = "cancel" /\ lastReturn.at \in {"notStarted", "connecting"}) =>
    /\ lastReturn.outcome = "threw"
    /\ \A t \in Tasks : ~tasks[t].canceled

\* C9 witness: cancel() was called between execute() and the creation of the
\* request, and threw.
C9_Witness ==
  /\ lastReturn.op = "cancel"
  /\ lastReturn.at = "connecting"
  /\ lastReturn.outcome = "threw"
  /\ \E t \in Tasks : tasks[t].op = "execute"

\* C10: cancel() on a handle whose request is running does not throw and
\* cancels the request.
C10_CancelRunningCancels ==
  (lastReturn.op = "cancel" /\ lastReturn.at = "running") =>
    lastReturn.outcome = "canceled"

\* the statements of a batch between BEGIN TRANSACTION and COMMIT
DataStatements(b) == SubSeq(b, 3, Len(b) - 1)

\* the table after every entry of the change set took effect, inserts first,
\* then updates, then deletes
RECURSIVE ApplyAll(_, _, _)
ApplyAll(d, stmts, i) ==
  IF i > Len(stmts) THEN d ELSE ApplyAll(StmtApply(d, stmts[i]), stmts, i + 1)
AllApplied(d, c) ==
  ApplyAll(d, buildInsertQueries(c.inserts) \o buildUpdateQueries(c.updates)
              \o buildDeleteQueries(c.deletes), 1)

\* C5 as stated: whenever applyChanges ends by throwing, the table is as it
\* was before the call and no rows are returned.
C5_ThrowLeavesNothingVisible ==
  chg.pc = "threw" => (db = chg.pre /\ chg.returned = <<>>)

\* C5 amended: whenever applyChanges throws, no rows are returned; when it
\* throws because the transaction batch was rejected, the table is as it was
\* before the call; when it throws because a re-select after the commit was
\* rejected, the whole change set is in the table; a change set is never
\* applied in part.
C5_FailedTransactionLeavesNothing ==
  chg.pc = "threw" =>
    /\ chg.returned = <<>>
    /\ chg.stage = "tx" => db = chg.pre
    /\ chg.stage = "select" => db = AllApplied(chg.pre, chg.changes)
    /\ chg.stage \in {"tx", "select"}

\* C5 witness: the batch was rejected at a statement that followed one which
\* had already changed the table, and the table is back to its old contents.
C5_Witness ==
  /\ chg.pc = "threw"
  /\ chg.stage = "tx"
  /\ LET r == RunBatch(chg.pre, DataStatements(chg.sent[1]))
     IN ~r.ok /\ r.db # chg.pre
  /\ db = chg.pre

\* C6: applyChanges sends one multi-statement execution: SET XACT_ABORT ON,
\* BEGIN TRANSACTION, one statement per insert, then per update, then per
\* delete, each in list order, then COMMIT; a missing or empty list adds
\* nothing, the caller's key order changes nothing, and whatever is sent
\* afterwards is a single SELECT.
C6_OneOrderedTransaction ==
  chg.pc # "idle" =>
    LET b == chg.sent[1]
        c == chg.changes
        ni == Len(c.inserts)
        nu == Len(c.updates)
        nd == Len(c.deletes)
    IN /\ Len(b) = 3 + ni + nu + nd
       /\ b[1].kind = "SET XACT_ABORT ON"
       /\ b[2].kind = "BEGIN TRANSACTION"
       /\ b[Len(b)].kind = "COMMIT"
       /\ \A i \in 1..ni : b[2 + i] =
            [kind |-> "INSERT", key |-> c.inserts[i].key, val |-> c.inserts[i].val]
       /\ \A i \in 1..nu : b[2 + ni + i] =
            [kind |-> "UPDATE", key |-> c.updates[i].key, val |-> c.updates[i].val]
       /\ \A i \in 1..nd : b[2 + ni + nu + i] =
            [kind |-> "DELETE", key |-> c.deletes[i].key, val |-> ""]
       /\ \A j \in 2..Len(chg.sent) :
            Len(chg.sent[j]) = 1 /\ chg.sent[j][1].kind = "SELECT"

\* C6 witness: a change set whose keys the caller set in the order deletes,
\* updates, inserts, all three non-empty, has been sent.
C6_Witness ==
  /\ chg.pc = "awaitTx"
  /\ chg.changes.order = <<"deletes", "updates", "inserts">>
  /\ chg.changes.inserts # <<>>
  /\ Len(chg.changes.updates) = 2
  /\ chg.changes.deletes # <<>>

\* C7: after a successful commit applyChanges returns one row per update
\* entry whose target row exists, in update order, with the updated values.
C7_ReselectReturnsUpdatedRows ==
  (/\ chg.pc = "done"
   /\ \A i \in 1..Len(chg.changes.updates) : db[chg.changes.updates[i].key] # Absent)
  => /\ Len(chg.returned) = Len(chg.changes.updates)
     /\ \A i \in 1..Len(chg.changes.updates) :
          chg.returned[i] = [key |-> chg.changes.updates[i].key,
                            val |-> db[chg.changes.updates[i].key]]

Types(batch) == [i \in 1..Len(batch) |-> batch[i].type]

\* C8: for the batch SELECT; UPDATE; SELECT executeQuery returns exactly 3
\* results, one per statement and in statement order: each has the
\* classifier's type of the statement at its position, and the middle one has
\* rowCount 0 and affectedRows equal to the number of rows updated.
C8_ResultsAlignedWithStatements ==
  (/\ exe.pc = "done"
   /\ exe.parsable
   /\ Types(exe.batch) = <<"SELECT", "UPDATE", "SELECT">>) =>
    /\ Len(exe.results) = 3
    /\ \A i \in 1..3 : exe.results[i].command = exe.batch[i].type
    /\ exe.results[2].rowCount = 0
    /\ exe.results[2].affectedRows = exe.batch[2].n

\* C11: when the driver rejects the query of an execute() call, execute()
\* rejects, and the error it rethrows carries the tag CANCELED_BY_USER exactly
\* when the driver's error code is ECANCEL.
C11_CancelCodeIsTagged ==
  (lastReturn.op = "execute" /\ lastReturn.code \in ErrorCodes)
  => /\ lastReturn.outcome = "error"
     /\ lastReturn.tag = IF lastReturn.code = "ECANCEL" THEN "CANCELED_BY_USER"
                                                        ELSE "none"

\* C11 witness: an execute() call has been rejected with the driver's ECANCEL
\* and the caller holds the tagged error.
C11_Witness ==
  /\ lastReturn.op = "execute"
  /\ lastReturn.outcome = "error"
  /\ lastReturn.code = "ECANCEL"
  /\ lastReturn.tag = "CANCELED_BY_USER"

\* the row identities of an answer
Identities(rows) == {rows[i] : i \in 1..Len(rows)}

\* the order clause names a field, so the order of the rows is determined
Deterministic(orderBy) == orderBy.defined /\ Len(orderBy.items) > 0

\* C12: on the same table with the same ORDER BY, offset and limit, the legacy
\* and the modern page query return the same row identities, the legacy one at
\* most limit + 1 rows and the modern one at most limit rows.
C12_StrategiesReturnSameRows ==
  (/\ Deterministic(sel.orderBy)
   /\ sel.result["PAGE_OLD"].outcome = "ok"
   /\ sel.result["PAGE_NEW"].outcome = "ok")
  => /\ Identities(sel.result["PAGE_OLD"].rows)
          = Identities(sel.result["PAGE_NEW"].rows)
     /\ Len(sel.result["PAGE_OLD"].rows) <= sel.limit + 1
     /\ Len(sel.result["PAGE_NEW"].rows) <= sel.limit

\* C13: every page query selectTopSql generates, by either strategy, carries
\* the order clause: ORDER BY (SELECT NULL) when orderBy is absent or empty,
\* else ORDER BY with one entry per order entry, a bare field rendered
\* without a direction.
OrderClause(q) ==
  IF q.strategy = "PAGE_OLD" THEN q.over ELSE q.orderByString

C13_PageQueryHasOrderBy ==
  \A s \in Strategies :
    sel.query[s].strategy # "none"
    => LET clause == OrderClause(sel.query[s])
       IN IF Deterministic(sel.orderBy)
          THEN /\ clause.text = "ORDER BY"
               /\ Len(clause.items) = Len(sel.orderBy.items)
               /\ \A i \in 1..Len(clause.items) :
                    ~sel.orderBy.items[i].isObject => clause.items[i].dir = ""
          ELSE clause.text = "ORDER BY (SELECT NULL)"

\* where the bracket-delimited identifier that opens before position i of s
\* ends: at the first ] that is not doubled; 0 when it never ends
RECURSIVE TokenEnd(_, _)
TokenEnd(s, i) ==
  IF i > Len(s) THEN 0
  ELSE IF s[i] = "]"
       THEN (IF i + 1 <= Len(s) /\ s[i + 1] = "]" THEN TokenEnd(s, i + 2)
             ELSE i)
       ELSE TokenEnd(s, i + 1)

NoSpecial(value) == \A i \in 1..Len(value) : value[i] = "a"

\* C14: wrapIdentifier returns the wildcard unchanged; of any other identifier
\* it returns one bracket-delimited token, which opens with [ and ends at its
\* last character and not before; an identifier without special characters
\* comes back as [name] and stripping the brackets gives the name.
C14_WrappedIsOneToken ==
  wid.pc = "done"
  => IF wid.value = <<"*">> THEN wid.out = <<"*">>
     ELSE /\ Len(wid.out) >= 2
          /\ wid.out[1] = "["
          /\ TokenEnd(wid.out, 2) = Len(wid.out)
          /\ NoSpecial(wid.value)
               => /\ wid.out = <<"[">> \o wid.value \o <<"]">>
                  /\ SubSeq(wid.out, 2, Len(wid.out) - 1) = wid.value

\* C15: a call whose pool failed to connect rejects with the connection
\* error; a pool that failed to connect is never the cached connection; and
\* while no connection is cached, every call in flight is establishing a
\* pool of its own, which has not failed.
C15_ConnectFailureIsNotCached ==
  /\ lastReturn.code = "ECONN" => lastReturn.outcome = "error"
  /\ connection # NoPool => pools[connection] = "open"
  /\ connection = NoPool
       => \A t \in Tasks : tasks[t].pc \in {"idle", "awaitConnect", "awaitTick"}
  /\ \A t \in Tasks :
       tasks[t].pc = "awaitConnect"
       => pools[tasks[t].pool] \in {"connecting", "badconfig"}

\* C15 witness: the first pool failed to connect and nothing was cached; the
\* next call established the second pool, which is cached, and returned.
C15_Witness ==
  /\ pools[1] = "failed"
  /\ calls = 2
  /\ connection = 2
  /\ pools[2] = "open"
  /\ lastReturn.outcome = "ok"
  /\ \A t \in Tasks : tasks[t].pc = "idle"

\* a result is SELECT-shaped: it has a row, or none and no row was affected
SelectShaped(r) == r.rowCount > 0 \/ (r.rowCount = 0 /\ r.affectedRows = 0)

\* C16 as stated: every result executeQuery returns is labeled SELECT when it
\* is SELECT-shaped, and otherwise carries the command the classifier gave
\* the statement at its position.
C16_SelectShapeDecidesLabel ==
  exe.pc = "done"
  => \A i \in 1..Len(exe.results) :
       LET command == At(identifyCommands(exe.batch, exe.parsable), i)
       IN IF SelectShaped(exe.results[i])
          THEN exe.results[i].command = "SELECT"
          ELSE command # Undefined => exe.results[i].command = command

\* C16 amended: every result executeQuery returns carries the command the
\* classifier gave the statement at its position when there is one; only when
\* there is none is it labeled by its shape: SELECT when it is SELECT-shaped,
\* and false otherwise.
C16_ClassifierDecidesLabel ==
  exe.pc = "done"
  => \A i \in 1..Len(exe.results) :
       LET command == At(identifyCommands(exe.batch, exe.parsable), i)
       IN exe.results[i].command =
            IF command # Undefined THEN command
            ELSE IF SelectShaped(exe.results[i]) THEN "SELECT" ELSE "false"

\* C16 witness: executeQuery has returned a result that has rows and carries
\* the classifier's UPDATE.
C16_Witness ==
  /\ exe.pc = "done"
  /\ exe.parsable
  /\ \E i \in 1..Len(exe.results) :
       /\ exe.results[i].rowCount > 0
       /\ exe.results[i].command = "UPDATE"

\* C17: when the driver reports no result set and a summed affected-row count
\* above 0, executeQuery returns exactly one Result, with no rows, rowCount 0
\* and that count as affectedRows; in every other case it returns one Result
\* per result set of the driver, in the driver's order.
C17_PlaceholderOrOnePerResultSet ==
  exe.pc = "done"
  => LET data == DriverAnswer(exe.batch, exe.counted)
         rowsAffected == sum(data.rowsAffected, 1)
     IN IF Len(data.recordsets) = 0 /\ rowsAffected > 0
        THEN /\ Len(exe.results) = 1
             /\ exe.results[1].rows = <<>>
             /\ exe.results[1].rowCount = 0
             /\ exe.results[1].affectedRows = rowsAffected
        ELSE /\ Len(exe.results) = Len(data.recordsets)
             /\ \A i \in 1..Len(exe.results) :
                  exe.results[i].rows = data.recordsets[i]

\* C17 witness: a batch of UPDATEs that changed rows has been answered with
\* the placeholder.
C17_Witness ==
  /\ exe.pc = "done"
  /\ \A i \in 1..Len(exe.batch) : exe.batch[i].type = "UPDATE"
  /\ \E i \in 1..Len(exe.batch) : exe.batch[i].n > 0
  /\ Len(exe.results) = 1
  /\ exe.results[1].rows = <<>>

\* C18: alterTable, alterIndex, alterRelation and importData hand the driver
\* one batch, SET XACT_ABORT ON; BEGIN TRANSACTION; body; COMMIT; when the
\* call throws, the table is as it was before the call and the error has been
\* logged; when it returns, the whole body has been applied.
C18_BodyRunsInOneTransaction ==
  txn.pc # "idle"
  => /\ txn.op \in {"alterTable", "alterIndex", "alterRelation", "importData"}
     /\ Len(txn.sent) = 1
     /\ txn.sent[1] = <<Ctl("SET XACT_ABORT ON"), Ctl("BEGIN TRANSACTION")>>
                        \o txn.body \o <<Ctl("COMMIT")>>
     /\ txn.pc = "threw" => (txn.table = txn.pre /\ txn.logged)
     /\ txn.pc = "done" => (txn.table = ApplyAll(txn.pre, txn.body, 1)
                            /\ ~txn.logged)

\* C18 witness: the second statement of a body failed after the first had
\* changed the table; the call threw and the table is as it was before.
C18_Witness ==
  /\ txn.pc = "threw"
  /\ Len(txn.body) = 2
  /\ ~StmtFails(txn.pre, txn.body[1])
  /\ StmtApply(txn.pre, txn.body[1]) # txn.pre
  /\ StmtFails(StmtApply(txn.pre, txn.body[1]), txn.body[2])
  /\ txn.table = txn.pre
  /\ txn.logged

\* C19: setTableDescription issues sp_updateextendedproperty when the table
\* has an MS_Description at the time it reads it and sp_addextendedproperty
\* when it has none; so among the calls on one table, every call after one
\* that succeeded issues the update procedure.
C19_UpdateWhenDescribed ==
  /\ \A i \in 1..Len(dsc.issued) :
       dsc.issued[i].f = IF dsc.issued[i].had THEN "sp_updateextendedproperty"
                                              ELSE "sp_addextendedproperty"
  /\ \A i, j \in 1..Len(dsc.issued) :
       (/\ i < j
        /\ dsc.issued[i].table = dsc.issued[j].table
        /\ dsc.issued[i].outcome = "ok")
       => dsc.issued[j].f = "sp_updateextendedproperty"

\* the rows of the index called name, and the one of them whose position
\* within the index is p
GroupOf(rows, name) ==
  {rows[i] : i \in {j \in 1..Len(rows) : rows[j].index_name = name}}
RowAt(group, p) ==
  CHOOSE r \in group :
    Cardinality({q \in group : q.column_id < r.column_id}) = p - 1

\* C20: listTableIndexes returns one record for each distinct index name of
\* the rows, the records in ascending order of index id; each record has the
\* flags of the rows of its index and one column for each of them, in the
\* order of their position within the index, DESC for a descending key
\* column and ASC otherwise; no rows give no records.
C20_OneRecordPerIndex ==
  ind.pc = "done"
  => LET rows == ind.rows
         result == ind.result
         names == {rows[i].index_name : i \in 1..Len(rows)}
     IN /\ Len(result) = Cardinality(names)
        /\ {result[i].name : i \in 1..Len(result)} = names
        /\ \A i, j \in 1..Len(result) : i < j => result[i].id < result[j].id
        /\ \A i \in 1..Len(result) :
             LET group == GroupOf(rows, result[i].name)
             IN /\ \A r \in group : /\ result[i].id = r.index_id
                                     /\ result[i].unique = r.is_unique
                                     /\ result[i].primary = r.is_primary
                /\ Len(result[i].columns) = Cardinality(group)
                /\ \A p \in 1..Len(result[i].columns) :
                     LET r == RowAt(group, p)
                     IN /\ result[i].columns[p].name = r.column_name
                        /\ result[i].columns[p].order =
                             IF r.is_descending THEN "DESC" ELSE "ASC"

\* C20 witness: the index that comes second by name has the lower id and is
\* returned first; it is a unique index of two columns, which the server
\* returned in the opposite order of their positions, the first descending.
C20_Witness ==
  /\ ind.pc = "done"
  /\ Len(ind.rows) = 3
  /\ ind.rows[1].index_name = "ia" /\ ind.rows[1].index_id = 2
  /\ ind.rows[2].index_name = "ib" /\ ind.rows[2].column_id = 2
  /\ ind.rows[3].index_name = "ib" /\ ind.rows[3].column_id = 1
  /\ ind.rows[3].is_descending /\ ~ind.rows[2].is_descending
  /\ ind.rows[2].is_unique
  /\ Len(ind.result) = 2
  /\ ind.result[1].name = "ib"
  /\ ind.result[1].unique
  /\ ind.result[1].columns = <<[name |-> ColumnName(1), order |-> "DESC"],
                               [name |-> ColumnName(2), order |-> "ASC"]>>

\* C21: every sub-query getTableProperties issues for the triggers, the
\* indexes and the relations names the caller's table and the caller's
\* schema, and what it returns as triggers, indexes and relations is what
\* the server holds for that table in that schema.
C21_SubQueriesNameTheCallersTable ==
  /\ \A i \in 1..Len(prp.queries) :
       prp.queries[i].kind \in {"triggers", "indexes", "relations"}
       => /\ prp.queries[i].table = prp.table
          /\ prp.queries[i].schema = SchemaOf(prp)
  /\ prp.pc = "done"
       => \A kind \in {"triggers", "indexes", "relations"} :
            LET q == [kind |-> kind, table |-> prp.table,
                      schema |-> SchemaOf(prp)]
                returned == CASE kind = "triggers" -> prp.triggers
                              [] kind = "indexes" -> prp.indexes
                              [] OTHER -> prp.relations
            IN returned = Listed(prp.exists, q)

====
